---------------------------- MODULE Spec2Model ----------------------------
(***************************************************************************)
(* Model of static/app.js, the browser client of the weather station API.  *)
(*                                                                         *)
(* The program is a set of async functions run by the browser's event      *)
(* loop.  Every await is a point where the function is suspended; the step *)
(* that resumes it (the promise it waits on settling) is one action, and   *)
(* runs the function up to its next await or its end without interruption. *)
(* The network, the clipboard, the user and the clock are the environment: *)
(* their inputs are drawn from bounded sets.                               *)
(*                                                                         *)
(* JSON values are records [kind, num, str]; reading a property a JSON     *)
(* object lacks yields undefined, so an absent field is the value JUndef.  *)
(* Numbers are integers.  Strings hold no HTML markup, so the elements     *)
(* innerHTML builds are the elements the template names: currentContent is *)
(* modelled as its four <div>s (label text, value text) and histBody as    *)
(* its <tr>s, each the sequence of the texts of its <td>s.                 *)
(***************************************************************************)
EXTENDS Integers, Sequences, FiniteSets

---------------------------------------------------------------------------
(* Bounds of the model *)

\* refreshAll invocations explored
MaxRefresh == 2
\* copyCSV invocations explored
MaxCopy == 2
\* copyCSV invocations explored while refreshes run as well
MaxJointCopy == 1
\* rows of a /api/history response
MaxRows == 2
\* the clock's step, in ms, while a copy timer is pending
Quantum == 600

---------------------------------------------------------------------------
(* JavaScript values and conversions *)

JNull == [kind |-> "null", num |-> 0, str |-> ""]
JUndef == [kind |-> "undefined", num |-> 0, str |-> ""]
JNum(n) == [kind |-> "number", num |-> n, str |-> ""]
JStr(s) == [kind |-> "string", num |-> 0, str |-> s]

Digit(d) ==
  CASE d = 0 -> "0" [] d = 1 -> "1" [] d = 2 -> "2" [] d = 3 -> "3"
    [] d = 4 -> "4" [] d = 5 -> "5" [] d = 6 -> "6" [] d = 7 -> "7"
    [] d = 8 -> "8" [] d = 9 -> "9"

RECURSIVE NatToString(_)
NatToString(n) ==
  IF n < 10 THEN Digit(n) ELSE NatToString(n \div 10) \o Digit(n % 10)

\* Number::toString of an integer
NumberToString(n) == IF n < 0 THEN "-" \o NatToString(-n) ELSE NatToString(n)

\* ToString, as a template literal's ${...} applies it
ToString(v) ==
  CASE v.kind = "null" -> "null"
    [] v.kind = "undefined" -> "undefined"
    [] v.kind = "number" -> NumberToString(v.num)
    [] v.kind = "string" -> v.str

\* a ?? b
Coalesce(a, b) == IF a.kind \in {"null", "undefined"} THEN b ELSE a

\* ToBoolean, as the conditional operator applies it
Truthy(v) ==
  CASE v.kind = "null" -> FALSE
    [] v.kind = "undefined" -> FALSE
    [] v.kind = "number" -> v.num # 0
    [] v.kind = "string" -> v.str # ""

\* Response.ok
Ok(status) == 200 <= status /\ status <= 299

\* the Error getJSON throws
HttpError(status) == "HTTP " \o NumberToString(status)

---------------------------------------------------------------------------
(* Rendering *)

CurrentFields ==
  <<"dry_bulb_F", "wet_bulb_F", "humidity_percent", "pressure_inHg",
    "timestamp_local", "station">>

HistoryFields ==
  <<"timestamp_local", "temperature_F", "dry_bulb_F", "wet_bulb_F",
    "humidity_percent", "pressure_inHg">>

\* cell(v): the text of the <td> it builds
cell(v) ==
  IF v.kind = "null" \/ v.kind = "undefined" THEN "" ELSE ToString(v)

\* CurrentPanel with the suffixes of the last two values exchanged
CurrentPanelSuffixesSwapped(data) ==
  << [label |-> "Temperature (dry bulb)",
      val |-> ToString(Coalesce(data.dry_bulb_F, JStr(""))) \o " °F"],
     [label |-> "Wet bulb",
      val |-> ToString(Coalesce(data.wet_bulb_F, JStr(""))) \o " °F"],
     [label |-> "Humidity",
      val |-> ToString(Coalesce(data.humidity_percent, JStr(""))) \o " inHg"],
     [label |-> "Pressure",
      val |-> ToString(Coalesce(data.pressure_inHg, JStr(""))) \o " %"] >>

\* the <div>s loadCurrent puts in currentContent
CurrentPanel(data) ==
  << [label |-> "Temperature (dry bulb)",
      val |-> ToString(Coalesce(data.dry_bulb_F, JStr(""))) \o " °F"],
     [label |-> "Wet bulb",
      val |-> ToString(Coalesce(data.wet_bulb_F, JStr(""))) \o " °F"],
     [label |-> "Humidity",
      val |-> ToString(Coalesce(data.humidity_percent, JStr(""))) \o " %"],
     [label |-> "Pressure",
      val |-> ToString(Coalesce(data.pressure_inHg, JStr(""))) \o " inHg"] >>

\* the text loadCurrent puts in stamp
StampText(data) ==
  IF Truthy(data.timestamp_local)
  THEN "As of " \o ToString(data.timestamp_local)
         \o " (" \o ToString(data.station) \o ")"
  ELSE ""

\* the <tr> loadHistory builds for one row
HistoryRow(r) ==
  << cell(r.timestamp_local), cell(r.temperature_F), cell(r.dry_bulb_F),
     cell(r.wet_bulb_F), cell(r.humidity_percent), cell(r.pressure_inHg) >>

\* rows.map(...).join(""): the <tr>s of the table body
HistoryBody(rows) == [i \in 1..Len(rows) |-> HistoryRow(rows[i])]

---------------------------------------------------------------------------
(* Program constants *)

\* the label copyCSV shows once the text is on the clipboard
CopiedLabel == "Copied!"
\* the label the timer callback of copyCSV writes
RevertLabel == "Copy 48h CSV to Clipboard"
\* the delay of that timer, in ms
CopyRevertMs == 1200
\* the period of the auto-refresh, in ms
RefreshIntervalMs == 5 * 60 * 1000

\* The page's markup is not part of the sources: the text the button and
\* the regions hold before the script writes them.
InitialLabel == "Copy 48h CSV to Clipboard"
InitialPanel == << >>
InitialStamp == ""
InitialBody == << >>

---------------------------------------------------------------------------
(* Inputs: what the server, the clipboard and the user may do *)

\* the statuses the server answers with
Statuses == {200, 404, 500}
\* those it answers with where overlapping refreshes are explored
SomeStatuses == {200, 500}

Obj6(F, a, b, c, d, e, f) ==
  [n \in {F[i] : i \in 1..6} |->
     CASE n = F[1] -> a [] n = F[2] -> b [] n = F[3] -> c
       [] n = F[4] -> d [] n = F[5] -> e [] n = F[6] -> f]

Current(a, b, c, d, e, f) == Obj6(CurrentFields, a, b, c, d, e, f)
Row(a, b, c, d, e, f) == Obj6(HistoryFields, a, b, c, d, e, f)

Missing == {JNull, JUndef}

\* every /api/current object over a few values per field
AllCurrent ==
  LET N == Missing \cup {JNum(0), JNum(72)}
      T == Missing \cup {JStr(""), JNum(0), JStr("2024-05-01 12:00")}
      S == Missing \cup {JStr("KMPR")}
  IN  {Current(a, b, c, d, e, f) :
         a \in N, b \in N, c \in N, d \in N, e \in T, f \in S}

\* the /api/current objects the whole-program specifications deliver
SomeCurrent ==
  { Current(JNum(72), JNum(65), JNum(40), JNum(30),
            JStr("2024-05-01 12:00"), JStr("KMPR")),
    Current(JNum(68), JNum(61), JNum(55), JNum(29),
            JStr("2024-05-01 12:05"), JStr("KMPR")) }

\* the rows of /api/history: a full row, and rows in which every field is,
\* in one row or another, null and absent
SomeRows ==
  { Row(JStr("2024-05-01 12:00"), JNum(72), JNum(71), JNum(65), JNum(40), JNum(30)),
    Row(JNull, JNum(1), JUndef, JNum(2), JNull, JNum(3)),
    Row(JStr("t"), JUndef, JNum(4), JNull, JNum(5), JUndef),
    Row(JStr(""), JNum(0), JNum(-3), JNum(0), JNum(105), JNum(0)),
    Row(JUndef, JNull, JNull, JUndef, JUndef, JNull) }

RECURSIVE SeqsUpTo(_, _)
SeqsUpTo(S, n) ==
  IF n = 0 THEN {<< >>}
  ELSE LET P == SeqsUpTo(S, n - 1)
       IN  P \cup {Append(p, x) : p \in {q \in P : Len(q) = n - 1}, x \in S}

\* every /api/history array of at most MaxRows of those rows
AllHistory == SeqsUpTo(SomeRows, MaxRows)

\* the /api/history arrays the whole-program specifications deliver
SomeHistory ==
  LET r1 == Row(JStr("2024-05-01 12:00"), JNum(72), JNum(71), JNum(65), JNum(40), JNum(30))
      r2 == Row(JStr("2024-05-01 11:55"), JNull, JNum(69), JUndef, JNum(45), JNum(29))
  IN  {<<r1>>, <<r2, r1>>}

\* the bodies /api/history.csv answers with
CsvResponses ==
  { [status |-> 200, body |-> "timestamp_local,temperature_F\n2024-05-01 12:00,72\n"],
    [status |-> 500, body |-> "Internal Server Error"] }

---------------------------------------------------------------------------
(* State *)

VARIABLES
  loaded,          \* the script has run: handlers registered, interval set
  refreshes,       \* the refreshAll invocations, in the order they started
  currentContent,  \* DOM: the <div>s of #currentContent
  stamp,           \* DOM: the text of #stamp
  histBody,        \* DOM: the <tr>s of #histBody
  copyLabel,       \* DOM: the text of #copyBtn
  lastCurrent,     \* history: the last object handed to a loadCurrent
  lastHistory,     \* history: the last array handed to a loadHistory
  requests,        \* the network: fetch calls made so far, per URL
  triggers,        \* history: page loads, refreshBtn clicks and interval ticks so far
  intervalLeft,    \* ms until the interval timer fires next
  copies,          \* the copyCSV invocations, in the order they started
  clipboard,       \* the system clipboard
  timers           \* the pending copyCSV timers, in the order they were set

refreshVars == <<refreshes, currentContent, stamp, histBody, lastCurrent, lastHistory>>
copyVars == <<copies, clipboard, timers, copyLabel>>
vars ==
  <<loaded, refreshes, currentContent, stamp, histBody, copyLabel, lastCurrent,
    lastHistory, requests, triggers, intervalLeft, copies, clipboard, timers>>

URLs == {"/api/current", "/api/history", "/api/history.csv"}

\* an async function suspended at its first await, the fetch
Fetching == [pc |-> "fetch", status |-> 0, error |-> ""]

Thrown(ld, msg) == [ld EXCEPT !.pc = "failed", !.error = msg]

Init ==
  /\ loaded = FALSE
  /\ refreshes = << >>
  /\ currentContent = InitialPanel
  /\ stamp = InitialStamp
  /\ histBody = InitialBody
  /\ copyLabel = InitialLabel
  /\ lastCurrent = << >>
  /\ lastHistory = << >>
  /\ requests = [u \in URLs |-> 0]
  /\ triggers = [load |-> 0, click |-> 0, timer |-> 0]
  /\ intervalLeft = 0
  /\ copies = << >>
  /\ clipboard = ""
  /\ timers = << >>

---------------------------------------------------------------------------
(* getJSON, loadCurrent, loadHistory and refreshAll *)

\* a refresh started after refresh i has written the current reading
CurrentNewer(i) == lastCurrent # << >> /\ lastCurrent[1].cycle > i

\* getJSON resumed by fetch's response: throws unless r.ok, else awaits r.json()
getJSON(ld, status) ==
  IF ~Ok(status)
  THEN [pc |-> "failed", status |-> status, error |-> HttpError(status)]
  ELSE [pc |-> "json", status |-> status, error |-> ""]

\* Promise.all over the two loaders: rejected with the first rejection,
\* fulfilled once both are fulfilled
PromiseAll(r, ld) ==
  IF r.all # "pending" THEN [all |-> r.all, reason |-> r.reason]
  ELSE IF ld.pc = "failed" THEN [all |-> "rejected", reason |-> ld.error]
  ELSE IF r.cur.pc = "done" /\ r.hist.pc = "done"
       THEN [all |-> "fulfilled", reason |-> ""]
       ELSE [all |-> "pending", reason |-> ""]

\* loader w of refresh i becomes ld; the refresh's promise follows
SetLoader(i, w, ld) ==
  LET r == [refreshes[i] EXCEPT ![w] = ld]
      p == PromiseAll(r, ld)
  IN  refreshes' = [refreshes EXCEPT ![i] = [r EXCEPT !.all = p.all, !.reason = p.reason]]

\* refreshAll(): both loaders start, each calling fetch
refreshAll ==
  /\ refreshes' = Append(refreshes,
       [cur |-> Fetching, hist |-> Fetching, all |-> "pending", reason |-> ""])
  /\ requests' = [requests EXCEPT !["/api/current"] = @ + 1,
                                  !["/api/history"] = @ + 1]

\* the script's top level: handlers registered, refreshAll(), setInterval
ScriptLoad ==
  /\ ~loaded
  /\ loaded' = TRUE
  /\ refreshAll
  /\ triggers' = [triggers EXCEPT !.load = @ + 1]
  /\ intervalLeft' = RefreshIntervalMs
  /\ UNCHANGED <<currentContent, stamp, histBody, lastCurrent, lastHistory>>
  /\ UNCHANGED copyVars

\* a click on refreshBtn
RefreshClick(limit) ==
  /\ loaded
  /\ Len(refreshes) < limit
  /\ refreshAll
  /\ triggers' = [triggers EXCEPT !.click = @ + 1]
  /\ UNCHANGED <<loaded, intervalLeft, currentContent, stamp, histBody,
                 lastCurrent, lastHistory>>
  /\ UNCHANGED copyVars

\* the interval timer fires and is set again
IntervalTick(limit) ==
  /\ loaded
  /\ intervalLeft = 0
  /\ Len(refreshes) < limit
  /\ refreshAll
  /\ triggers' = [triggers EXCEPT !.timer = @ + 1]
  /\ intervalLeft' = RefreshIntervalMs
  /\ UNCHANGED <<loaded, currentContent, stamp, histBody, lastCurrent, lastHistory>>
  /\ UNCHANGED copyVars

Loaders == {"cur", "hist"}

\* fetch rejects (the network failed): getJSON throws, and so does the loader
FetchFails(i, w) ==
  /\ refreshes[i][w].pc = "fetch"
  /\ SetLoader(i, w, Thrown(refreshes[i][w], "TypeError: Failed to fetch"))
  /\ UNCHANGED <<loaded, requests, triggers, intervalLeft, currentContent, stamp,
                 histBody, lastCurrent, lastHistory>>
  /\ UNCHANGED copyVars

\* FetchResponds asking again when the response is not ok
FetchRespondsRetries(i, w, status) ==
  /\ refreshes[i][w].pc = "fetch"
  /\ IF Ok(status)
     THEN /\ SetLoader(i, w, getJSON(refreshes[i][w], status))
          /\ UNCHANGED requests
     ELSE /\ requests' = [requests EXCEPT
                 ![IF w = "cur" THEN "/api/current" ELSE "/api/history"] = @ + 1]
          /\ UNCHANGED refreshes
  /\ UNCHANGED <<loaded, triggers, intervalLeft, currentContent, stamp,
                 histBody, lastCurrent, lastHistory>>
  /\ UNCHANGED copyVars

\* fetch resolves with a response
FetchResponds(i, w, status) ==
  /\ refreshes[i][w].pc = "fetch"
  /\ SetLoader(i, w, getJSON(refreshes[i][w], status))
  /\ UNCHANGED <<loaded, requests, triggers, intervalLeft, currentContent, stamp,
                 histBody, lastCurrent, lastHistory>>
  /\ UNCHANGED copyVars

\* r.json() rejects (the body is not JSON)
JsonFails(i, w) ==
  /\ refreshes[i][w].pc = "json"
  /\ SetLoader(i, w, Thrown(refreshes[i][w], "SyntaxError"))
  /\ UNCHANGED <<loaded, requests, triggers, intervalLeft, currentContent, stamp,
                 histBody, lastCurrent, lastHistory>>
  /\ UNCHANGED copyVars

\* loadCurrent dropping a response older than the one shown
loadCurrentIfNewest(i, data) ==
  /\ refreshes[i].cur.pc = "json"
  /\ IF CurrentNewer(i)
     THEN UNCHANGED <<currentContent, stamp>>
     ELSE /\ currentContent' = CurrentPanel(data)
          /\ stamp' = StampText(data)
  /\ lastCurrent' = <<[cycle |-> i, data |-> data]>>
  /\ SetLoader(i, "cur", [refreshes[i].cur EXCEPT !.pc = "done"])
  /\ UNCHANGED <<loaded, requests, triggers, intervalLeft, histBody, lastHistory>>
  /\ UNCHANGED copyVars

\* loadCurrent writing nothing once its refresh has rejected
loadCurrentUnlessRejected(i, data) ==
  /\ refreshes[i].cur.pc = "json"
  /\ IF refreshes[i].all = "rejected"
     THEN UNCHANGED <<currentContent, stamp>>
     ELSE /\ currentContent' = CurrentPanel(data)
          /\ stamp' = StampText(data)
  /\ lastCurrent' = <<[cycle |-> i, data |-> data]>>
  /\ SetLoader(i, "cur", [refreshes[i].cur EXCEPT !.pc = "done"])
  /\ UNCHANGED <<loaded, requests, triggers, intervalLeft, histBody, lastHistory>>
  /\ UNCHANGED copyVars

\* loadCurrent writing the panel and leaving the stamp to a later step
loadCurrentPanelOnly(i, data) ==
  /\ refreshes[i].cur.pc = "json"
  /\ currentContent' = CurrentPanel(data)
  /\ lastCurrent' = <<[cycle |-> i, data |-> data]>>
  /\ SetLoader(i, "cur", [refreshes[i].cur EXCEPT !.pc = "done"])
  /\ UNCHANGED <<loaded, requests, triggers, intervalLeft, stamp, histBody, lastHistory>>
  /\ UNCHANGED copyVars

\* r.json() resolves with an object: loadCurrent writes the panel and the stamp
loadCurrent(i, data) ==
  /\ refreshes[i].cur.pc = "json"
  /\ currentContent' = CurrentPanel(data)
  /\ stamp' = StampText(data)
  /\ lastCurrent' = <<[cycle |-> i, data |-> data]>>
  /\ SetLoader(i, "cur", [refreshes[i].cur EXCEPT !.pc = "done"])
  /\ UNCHANGED <<loaded, requests, triggers, intervalLeft, histBody, lastHistory>>
  /\ UNCHANGED copyVars

\* loadHistory adding its rows to those of the table body
loadHistoryAppends(i, rows) ==
  /\ refreshes[i].hist.pc = "json"
  /\ histBody' = histBody \o HistoryBody(rows)
  /\ lastHistory' = <<[cycle |-> i, rows |-> rows]>>
  /\ SetLoader(i, "hist", [refreshes[i].hist EXCEPT !.pc = "done"])
  /\ UNCHANGED <<loaded, requests, triggers, intervalLeft, currentContent, stamp,
                 lastCurrent>>
  /\ UNCHANGED copyVars

\* r.json() resolves with an array of objects: loadHistory writes the table body
loadHistory(i, rows) ==
  /\ refreshes[i].hist.pc = "json"
  /\ histBody' = HistoryBody(rows)
  /\ lastHistory' = <<[cycle |-> i, rows |-> rows]>>
  /\ SetLoader(i, "hist", [refreshes[i].hist EXCEPT !.pc = "done"])
  /\ UNCHANGED <<loaded, requests, triggers, intervalLeft, currentContent, stamp,
                 lastCurrent>>
  /\ UNCHANGED copyVars

\* r.json() resolves with null (or, for loadHistory, with no array, or an
\* array holding null): reading data.dry_bulb_F, rows.map or r.timestamp_local
\* throws a TypeError before anything is assigned
LoaderThrows(i, w) ==
  /\ refreshes[i][w].pc = "json"
  /\ SetLoader(i, w, Thrown(refreshes[i][w], "TypeError"))
  /\ UNCHANGED <<loaded, requests, triggers, intervalLeft, currentContent, stamp,
                 histBody, lastCurrent, lastHistory>>
  /\ UNCHANGED copyVars

---------------------------------------------------------------------------
(* copyCSV *)

SetCopy(i, c) == copies' = [copies EXCEPT ![i] = c]

\* a click on copyBtn: copyCSV starts and calls fetch
CopyClick(limit) ==
  /\ loaded
  /\ Len(copies) < limit
  /\ copies' = Append(copies,
       [pc |-> "fetch", status |-> 0, body |-> "", txt |-> "", wrote |-> << >>,
        error |-> "", timer |-> "none", before |-> copyLabel])
  /\ requests' = [requests EXCEPT !["/api/history.csv"] = @ + 1]
  /\ UNCHANGED <<loaded, triggers, intervalLeft, clipboard, timers, copyLabel>>
  /\ UNCHANGED refreshVars

\* fetch rejects (the network failed)
CopyFetchFails(i) ==
  /\ copies[i].pc = "fetch"
  /\ SetCopy(i, Thrown(copies[i], "TypeError: Failed to fetch"))
  /\ UNCHANGED <<loaded, requests, triggers, intervalLeft, clipboard, timers, copyLabel>>
  /\ UNCHANGED refreshVars

\* fetch resolves with a response: copyCSV awaits r.text(), whatever r.status
CopyFetchResponds(i, resp) ==
  /\ copies[i].pc = "fetch"
  /\ SetCopy(i, [copies[i] EXCEPT !.pc = "text", !.status = resp.status,
                                  !.body = resp.body])
  /\ UNCHANGED <<loaded, requests, triggers, intervalLeft, clipboard, timers, copyLabel>>
  /\ UNCHANGED refreshVars

\* r.text() rejects (the body could not be read)
CopyTextFails(i) ==
  /\ copies[i].pc = "text"
  /\ SetCopy(i, Thrown(copies[i], "TypeError: Failed to fetch"))
  /\ UNCHANGED <<loaded, requests, triggers, intervalLeft, clipboard, timers, copyLabel>>
  /\ UNCHANGED refreshVars

\* r.text() resolves with the body: copyCSV calls clipboard.writeText(txt)
CopyTextResolves(i) ==
  /\ copies[i].pc = "text"
  /\ SetCopy(i, [copies[i] EXCEPT !.pc = "write", !.txt = copies[i].body])
  /\ UNCHANGED <<loaded, requests, triggers, intervalLeft, clipboard, timers, copyLabel>>
  /\ UNCHANGED refreshVars

\* writeText rejects (no permission, document not focused)
ClipboardFails(i) ==
  /\ copies[i].pc = "write"
  /\ SetCopy(i, Thrown(copies[i], "NotAllowedError"))
  /\ UNCHANGED <<loaded, requests, triggers, intervalLeft, clipboard, timers, copyLabel>>
  /\ UNCHANGED refreshVars

\* the browser puts the text on the clipboard and resolves writeText's promise
ClipboardWritten(i) ==
  /\ copies[i].pc = "write"
  /\ clipboard' = copies[i].txt
  /\ SetCopy(i, [copies[i] EXCEPT !.pc = "written", !.wrote = <<copies[i].txt>>])
  /\ UNCHANGED <<loaded, requests, triggers, intervalLeft, timers, copyLabel>>
  /\ UNCHANGED refreshVars

\* copyCSV not awaiting writeText
copyCSVBeforeWritten(i) ==
  /\ copies[i].pc = "write"
  /\ copyLabel' = CopiedLabel
  /\ timers' = Append(timers, [id |-> i, left |-> CopyRevertMs])
  /\ SetCopy(i, [copies[i] EXCEPT !.pc = "done", !.timer = "pending"])
  /\ UNCHANGED <<loaded, requests, triggers, intervalLeft, clipboard>>
  /\ UNCHANGED refreshVars

\* copyCSV resumed after writeText: the label is set and the timer started
copyCSV(i) ==
  /\ copies[i].pc = "written"
  /\ copyLabel' = CopiedLabel
  /\ timers' = Append(timers, [id |-> i, left |-> CopyRevertMs])
  /\ SetCopy(i, [copies[i] EXCEPT !.pc = "done", !.timer = "pending"])
  /\ UNCHANGED <<loaded, requests, triggers, intervalLeft, clipboard>>
  /\ UNCHANGED refreshVars

\* the timer callback writing the text the button had when copyBtn was clicked
CopyTimerRestores ==
  /\ timers # << >>
  /\ Head(timers).left = 0
  /\ copyLabel' = copies[Head(timers).id].before
  /\ timers' = Tail(timers)
  /\ SetCopy(Head(timers).id, [copies[Head(timers).id] EXCEPT !.timer = "fired"])
  /\ UNCHANGED <<loaded, requests, triggers, intervalLeft, clipboard>>
  /\ UNCHANGED refreshVars

\* the callback of the oldest timer runs once its delay has passed
CopyTimerFires ==
  /\ timers # << >>
  /\ Head(timers).left = 0
  /\ copyLabel' = RevertLabel
  /\ timers' = Tail(timers)
  /\ SetCopy(Head(timers).id, [copies[Head(timers).id] EXCEPT !.timer = "fired"])
  /\ UNCHANGED <<loaded, requests, triggers, intervalLeft, clipboard>>
  /\ UNCHANGED refreshVars

---------------------------------------------------------------------------
(* The clock *)

Min(S) == CHOOSE m \in S : \A n \in S : m <= n

\* ms until the next timer of the page is due
NextDue == Min({intervalLeft} \cup {timers[k].left : k \in 1..Len(timers)})

\* Time passes: up to the next timer that is due, never past it.  The clock
\* is sampled at the instants timers are due and, while a copy timer is
\* pending, every Quantum ms.
Advance ==
  /\ loaded
  /\ \E d \in {NextDue} \cup (IF timers # << >> THEN {Quantum} ELSE {}) :
       /\ 0 < d
       /\ d <= NextDue
       /\ intervalLeft' = intervalLeft - d
       /\ timers' = [k \in 1..Len(timers) |-> [timers[k] EXCEPT !.left = @ - d]]
  /\ UNCHANGED <<loaded, requests, triggers, copies, clipboard, copyLabel>>
  /\ UNCHANGED refreshVars

---------------------------------------------------------------------------
(* Specifications *)

Cycles == 1..Len(refreshes)
Copies == 1..Len(copies)

\* the steps of the loaders, the server answering with a status of S and,
\* when it is 2xx, with JSON of the shape the API names
Loading(S) ==
  \/ \E i \in Cycles, w \in Loaders : FetchFails(i, w)
  \/ \E i \in Cycles, w \in Loaders, st \in S : FetchResponds(i, w, st)
  \/ \E i \in Cycles, data \in SomeCurrent : loadCurrent(i, data)
  \/ \E i \in Cycles, rows \in SomeHistory : loadHistory(i, rows)

\* the steps of the loaders when a 2xx response holds something else
Malformed ==
  \/ \E i \in Cycles, w \in Loaders : JsonFails(i, w)
  \/ \E i \in Cycles, w \in Loaders : LoaderThrows(i, w)

\* the steps of copyCSV
Copying ==
  \/ \E i \in Copies : CopyFetchFails(i)
  \/ \E i \in Copies, resp \in CsvResponses : CopyFetchResponds(i, resp)
  \/ \E i \in Copies : CopyTextFails(i)
  \/ \E i \in Copies : CopyTextResolves(i)
  \/ \E i \in Copies : ClipboardFails(i)
  \/ \E i \in Copies : ClipboardWritten(i)
  \/ \E i \in Copies : copyCSV(i)
  \/ CopyTimerFires

\* The whole program.
Next ==
  \/ ScriptLoad
  \/ RefreshClick(MaxRefresh)
  \/ IntervalTick(MaxRefresh)
  \/ CopyClick(MaxJointCopy)
  \/ Advance
  \/ Loading(Statuses)
  \/ Malformed
  \/ Copying

Spec == Init /\ [][Next]_vars

\* The program when the user leaves copyBtn alone and every 2xx response
\* holds JSON of the shape the API names.
NextRefresh ==
  \/ ScriptLoad
  \/ RefreshClick(MaxRefresh)
  \/ IntervalTick(MaxRefresh)
  \/ Advance
  \/ Loading(SomeStatuses)

SpecRefresh == Init /\ [][NextRefresh]_vars

\* The program during its first five minutes, when the user leaves
\* refreshBtn alone and the first refresh is not answered.
NextCopy ==
  \/ ScriptLoad
  \/ CopyClick(MaxCopy)
  \/ Advance
  \/ Copying

SpecCopy == Init /\ [][NextCopy]_vars

\* The first refresh alone, /api/current answering with any object.
NextCurrent ==
  \/ ScriptLoad
  \/ \E i \in Cycles, st \in Statuses : FetchResponds(i, "cur", st)
  \/ \E i \in Cycles, data \in AllCurrent : loadCurrent(i, data)

SpecCurrent == Init /\ [][NextCurrent]_vars

\* The refreshes the user asks for, /api/history answering with any array.
NextHistory ==
  \/ ScriptLoad
  \/ RefreshClick(MaxRefresh)
  \/ \E i \in Cycles, st \in Statuses : FetchResponds(i, "hist", st)
  \/ \E i \in Cycles, rows \in AllHistory : loadHistory(i, rows)

SpecHistory == Init /\ [][NextHistory]_vars

---------------------------------------------------------------------------
(* Claims: what they speak of *)

IsMissing(v) == v.kind = "null" \/ v.kind = "undefined"

\* the text a field is to show: nothing when it is null or absent
FieldText(v) == IF IsMissing(v) THEN "" ELSE ToString(v)

\* the unit suffixes of the four values of the panel, in CurrentFields' order
Suffix == <<" °F", " °F", " %", " inHg">>

AllPresent(data) == \A k \in 1..6 : ~IsMissing(data[CurrentFields[k]])

\* the values present in a response that the conditional operator takes
\* for false
IsFalsy(v) == v = JStr("") \/ v = JNum(0)

\* the stamp that shows both the timestamp and the station
StampOf(ts, station) == "As of " \o ts \o " (" \o station \o ")"

CurrentShown == lastCurrent # << >>
HistoryShown == lastHistory # << >>

Sum(t) == t.load + t.click + t.timer

---------------------------------------------------------------------------
(* C1 *)

\* C1 (as claimed): an operation whose endpoint answered with a non-2xx
\* status has rejected with an error carrying that status, and has not
\* written the DOM: a loader is failed (it never reached the step that
\* writes its region), copyCSV is failed and has set neither label nor timer.
C1_NonOkRejects ==
  /\ \A i \in Cycles, w \in Loaders :
       (refreshes[i][w].status # 0 /\ ~Ok(refreshes[i][w].status)) =>
          /\ refreshes[i][w].pc = "failed"
          /\ refreshes[i][w].error = HttpError(refreshes[i][w].status)
  /\ \A i \in Copies :
       (copies[i].status # 0 /\ ~Ok(copies[i].status)) =>
          /\ copies[i].pc = "failed"
          /\ copies[i].error = HttpError(copies[i].status)
          /\ copies[i].timer = "none"

---------------------------------------------------------------------------
(* C2 *)

\* C2 (as claimed): the timer of a copyCSV invocation sets the label back to
\* the text the button had before that copy action, and with no timer
\* pending the label is the original text.
C2_RevertsToTextBefore ==
  /\ [][\A i \in Copies :
          (copies[i].timer = "pending" /\ copies'[i].timer = "fired")
             => copyLabel' = copies[i].before]_vars
  /\ [](timers = << >> => copyLabel = InitialLabel)

\* C2 (amended): the timer of a copyCSV invocation fires when the 1200 ms
\* since that invocation set the label have passed, and writes the fixed
\* text RevertLabel whatever the label was before; a timer is pending for
\* exactly the invocations that set the label and whose timer has not fired;
\* with no timer pending the label is RevertLabel once an invocation has set
\* it, and untouched before.
C2_RevertsToFixedLabel ==
  /\ [][\A i \in Copies :
          (copies[i].timer = "pending" /\ copies'[i].timer = "fired")
             => /\ Head(timers) = [id |-> i, left |-> 0]
                /\ copyLabel' = RevertLabel]_vars
  /\ [][\A i \in Copies :
          (copies[i].timer = "none" /\ copies'[i].timer # "none")
             => /\ copies'[i].timer = "pending"
                /\ copyLabel' = CopiedLabel
                /\ timers' = Append(timers, [id |-> i, left |-> CopyRevertMs])]_vars
  /\ [](timers = << >> =>
          copyLabel = IF \E i \in Copies : copies[i].timer = "fired"
                      THEN RevertLabel ELSE InitialLabel)

\* C2 witness: a second click made while the label read "Copied!"; both
\* timers have fired.
C2_Witness ==
  /\ Len(copies) = 2
  /\ copies[2].before = CopiedLabel
  /\ copies[1].timer = "fired"
  /\ copies[2].timer = "fired"
  /\ timers = << >>
  /\ copyLabel = RevertLabel

---------------------------------------------------------------------------
(* C3 *)

\* C3 (as claimed): a null or absent field of the object shown is rendered
\* as the empty string: its value in the panel is the bare unit suffix, and
\* the stamp is either empty or shows nothing in the field's place.
C3_MissingFieldIsEmpty ==
  CurrentShown =>
    LET d == lastCurrent[1].data IN
    /\ \A k \in 1..4 :
         IsMissing(d[CurrentFields[k]]) => currentContent[k].val = "" \o Suffix[k]
    /\ IsMissing(d.timestamp_local) =>
         stamp \in {"", StampOf("", FieldText(d.station))}
    /\ IsMissing(d.station) =>
         stamp \in {"", StampOf(FieldText(d.timestamp_local), "")}

---------------------------------------------------------------------------
(* C4 *)

\* C4: the table body holds exactly the rows of the last /api/history array
\* handed to loadHistory, in its order, whatever it held before: each row
\* has 6 cells in HistoryFields' order, a null or absent field giving an
\* empty cell; before any array arrives the body is untouched.
C4_TableIsLastArray ==
  IF HistoryShown
  THEN LET rows == lastHistory[1].rows IN
       /\ Len(histBody) = Len(rows)
       /\ \A k \in 1..Len(rows) :
            /\ Len(histBody[k]) = 6
            /\ \A j \in 1..6 : histBody[k][j] = FieldText(rows[k][HistoryFields[j]])
  ELSE histBody = InitialBody

\* C4 witness: the second refresh's array replaced the first's; it has two
\* rows, with a null field and an absent one.
C4_Witness ==
  /\ HistoryShown
  /\ lastHistory[1].cycle = 2
  /\ refreshes[1].hist.pc = "done"
  /\ Len(lastHistory[1].rows) = 2
  /\ lastHistory[1].rows[1].timestamp_local = JNull
  /\ lastHistory[1].rows[2].temperature_F = JUndef
  /\ Len(histBody) = 2

---------------------------------------------------------------------------
(* C5 *)

\* C5: an invocation of copyCSV that set the label (and with it the timer)
\* had its clipboard write completed before, with exactly the body fetched
\* by that invocation; the label becomes "Copied!" and a timer is added only
\* in a step that resumes an invocation whose write is complete; an
\* invocation whose fetch, body read or clipboard write failed has no timer,
\* and the step in which it fails changes neither label nor timers.
C5_LabelAfterOwnWrite ==
  /\ [](\A i \in Copies :
          /\ (copies[i].pc = "done" \/ copies[i].timer # "none")
                => copies[i].wrote = <<copies[i].body>>
          /\ copies[i].pc = "failed" => copies[i].timer = "none")
  /\ [][((copyLabel' = CopiedLabel /\ copyLabel # CopiedLabel)
            \/ Len(timers') > Len(timers))
          => \E i \in Copies :
               /\ copies[i].pc = "written"
               /\ copies[i].wrote = <<copies[i].body>>
               /\ copies'[i].pc = "done"]_vars
  /\ [][\A i \in Copies :
          (copies[i].pc # "failed" /\ copies'[i].pc = "failed")
             => UNCHANGED <<copyLabel, timers>>]_vars

\* C5 witness: one invocation wrote its body and set the label, another
\* failed at the clipboard write.
C5_Witness ==
  /\ Len(copies) = 2
  /\ copies[1].pc = "failed"
  /\ copies[1].error = "NotAllowedError"
  /\ copies[2].pc = "done"
  /\ copies[2].body # ""
  /\ clipboard = copies[2].body
  /\ copyLabel = CopiedLabel

---------------------------------------------------------------------------
(* C6 *)

\* C6 (as claimed): with all six fields present the panel shows each of the
\* four values followed by its unit suffix, in order, and the stamp shows
\* timestamp_local and station.
C6_AllPresentShown ==
  (CurrentShown /\ AllPresent(lastCurrent[1].data)) =>
    LET d == lastCurrent[1].data IN
    /\ Len(currentContent) = 4
    /\ \A k \in 1..4 :
         currentContent[k].val = ToString(d[CurrentFields[k]]) \o Suffix[k]
    /\ stamp = StampOf(ToString(d.timestamp_local), ToString(d.station))

\* C6 (amended): with all six fields present the panel shows each of the
\* four values followed by its unit suffix, in order; the stamp shows
\* timestamp_local and station unless timestamp_local is a value taken for
\* false (the empty string, 0), and is empty when it is.
C6_AllPresentShownIfTimestamp ==
  (CurrentShown /\ AllPresent(lastCurrent[1].data)) =>
    LET d == lastCurrent[1].data IN
    /\ Len(currentContent) = 4
    /\ \A k \in 1..4 :
         currentContent[k].val = ToString(d[CurrentFields[k]]) \o Suffix[k]
    /\ stamp = IF IsFalsy(d.timestamp_local) THEN ""
               ELSE StampOf(ToString(d.timestamp_local), ToString(d.station))

\* C6 witness: an object with all fields present and a timestamp is shown.
C6_Witness ==
  /\ CurrentShown
  /\ AllPresent(lastCurrent[1].data)
  /\ lastCurrent[1].data.dry_bulb_F = JNum(0)
  /\ lastCurrent[1].data.timestamp_local = JStr("2024-05-01 12:00")
  /\ currentContent[1].val = "0 °F"
  /\ stamp = "As of 2024-05-01 12:00 (KMPR)"

---------------------------------------------------------------------------
(* C7 *)

\* C7: refreshes that overlap all stay in flight (a loader waiting for its
\* response or its body can still be handed it, however many refreshes
\* started since), and each region shows the response handed last to a
\* loader of that region, whichever refresh that loader belongs to.
C7_LastDeliveredShown ==
  /\ IF CurrentShown
     THEN /\ lastCurrent[1].cycle \in Cycles
          /\ refreshes[lastCurrent[1].cycle].cur.pc = "done"
          /\ currentContent = CurrentPanel(lastCurrent[1].data)
          /\ stamp = StampText(lastCurrent[1].data)
     ELSE currentContent = InitialPanel /\ stamp = InitialStamp
  /\ IF HistoryShown
     THEN /\ lastHistory[1].cycle \in Cycles
          /\ refreshes[lastHistory[1].cycle].hist.pc = "done"
          /\ histBody = HistoryBody(lastHistory[1].rows)
     ELSE histBody = InitialBody
  /\ \A i \in Cycles, w \in Loaders :
       refreshes[i][w].pc = "fetch" => ENABLED FetchResponds(i, w, 200)
  /\ \A i \in Cycles :
       /\ refreshes[i].cur.pc = "json"
            => \A data \in SomeCurrent : ENABLED loadCurrent(i, data)
       /\ refreshes[i].hist.pc = "json"
            => \A rows \in SomeHistory : ENABLED loadHistory(i, rows)

\* C7 witness: the second refresh wrote the current reading, then the first
\* refresh's response arrived and is the one shown; the table shows the
\* second refresh's.
C7_Witness ==
  /\ Len(refreshes) = 2
  /\ refreshes[2].cur.pc = "done"
  /\ CurrentShown
  /\ lastCurrent[1].cycle = 1
  /\ currentContent = CurrentPanel(lastCurrent[1].data)
  /\ HistoryShown
  /\ lastHistory[1].cycle = 2

---------------------------------------------------------------------------
(* C8 *)

\* C8: a refresh has rejected exactly when one of its loaders has failed;
\* the step that hands a loader its response writes that loader's region
\* and leaves the other region alone, whatever the state of its sibling and
\* of the refresh; the step in which a loader fails writes no region.
C8_SiblingWriteStands ==
  /\ [](\A i \in Cycles :
          refreshes[i].all = "rejected"
            <=> (refreshes[i].cur.pc = "failed" \/ refreshes[i].hist.pc = "failed"))
  /\ [][\A i \in Cycles :
          (refreshes[i].cur.pc = "json" /\ refreshes'[i].cur.pc = "done")
             => /\ lastCurrent' # << >>
                /\ lastCurrent'[1].cycle = i
                /\ currentContent' = CurrentPanel(lastCurrent'[1].data)
                /\ stamp' = StampText(lastCurrent'[1].data)
                /\ UNCHANGED histBody]_vars
  /\ [][\A i \in Cycles :
          (refreshes[i].hist.pc = "json" /\ refreshes'[i].hist.pc = "done")
             => /\ lastHistory' # << >>
                /\ lastHistory'[1].cycle = i
                /\ histBody' = HistoryBody(lastHistory'[1].rows)
                /\ UNCHANGED <<currentContent, stamp>>]_vars
  /\ [][\A i \in Cycles, w \in Loaders :
          (refreshes[i][w].pc # "failed" /\ refreshes'[i][w].pc = "failed")
             => UNCHANGED <<currentContent, stamp, histBody>>]_vars

\* C8 witness: in the first refresh loadHistory failed and loadCurrent wrote
\* its response: the refresh has rejected, the panel shows the response and
\* the table is as it was.
C8_Witness ==
  /\ Len(refreshes) = 1
  /\ refreshes[1].hist.pc = "failed"
  /\ refreshes[1].cur.pc = "done"
  /\ refreshes[1].all = "rejected"
  /\ refreshes[1].reason = HttpError(500)
  /\ CurrentShown
  /\ currentContent = CurrentPanel(lastCurrent[1].data)
  /\ histBody = InitialBody

---------------------------------------------------------------------------
(* C9 *)

\* C9: the requests made to /api/current, those made to /api/history and
\* the refreshes started are as many as the triggers so far: one page load
\* once the script has run, the clicks on refreshBtn and the interval ticks;
\* the interval stays set, and when it is due the tick is taken whatever the
\* state of the earlier refreshes.
C9_OneRefreshPerTrigger ==
  /\ requests["/api/current"] = Sum(triggers)
  /\ requests["/api/history"] = Sum(triggers)
  /\ Len(refreshes) = Sum(triggers)
  /\ triggers.load = IF loaded THEN 1 ELSE 0
  /\ loaded => intervalLeft \in 0..RefreshIntervalMs
  /\ (loaded /\ Len(refreshes) < MaxRefresh) => ENABLED RefreshClick(MaxRefresh)
  /\ (loaded /\ intervalLeft = 0 /\ Len(refreshes) < MaxRefresh)
        => ENABLED IntervalTick(MaxRefresh)

\* C9 witness: the interval ticked while the first refresh, one loader of
\* which had failed, was still in flight.
C9_Witness ==
  /\ Len(refreshes) = 2
  /\ triggers = [load |-> 1, click |-> 0, timer |-> 1]
  /\ refreshes[1].cur.pc = "failed"
  /\ refreshes[1].hist.pc = "fetch"
  /\ requests["/api/current"] = 2
  /\ requests["/api/history"] = 2

---------------------------------------------------------------------------
(* C10 *)

\* C10: the panel and the stamp are those of one and the same /api/current
\* object (or both untouched), in every state.
C10_PanelAndStampAgree ==
  \/ /\ ~CurrentShown
     /\ currentContent = InitialPanel
     /\ stamp = InitialStamp
  \/ \E data \in SomeCurrent :
       /\ currentContent = CurrentPanel(data)
       /\ stamp = StampText(data)

\* C10 witness: the panel shows the first refresh's object, the table the
\* second refresh's array.
C10_Witness ==
  /\ CurrentShown
  /\ HistoryShown
  /\ lastCurrent[1].cycle = 1
  /\ lastHistory[1].cycle = 2
  /\ refreshes[2].cur.pc = "fetch"

=============================================================================
